---- MODULE Spec2Model ----
(***************************************************************************)
(* A model of dua-cli's aggregation engine: aggregate() of                 *)
(* src/src/aggregate.rs together with its ThrottleWriter and the timer     *)
(* thread the ThrottleWriter spawns.                                       *)
(*                                                                         *)
(* The main thread walks the roots one after the other; the walker, the    *)
(* device resolver, the size query and both sinks are the environment:     *)
(* every outcome they can produce is a nondeterministic input.             *)
(***************************************************************************)
EXTENDS Integers, Sequences, FiniteSets, TLC

\* ------------------------------------------------------------------ bounds
MaxRoots == 2        \* at most this many root paths are given
MaxEntries == 2      \* the walkers of one run yield at most this many items
MaxTicks == 1        \* the timer raises the trigger at most this many times

\* stats.smallest_file_in_bytes starts at u128::max_value().  TLC's integers
\* are 32 bits wide, so the sentinel is the largest of them; every size of the
\* model is far below it, which is all the code relies on.
U128Max == 2147483647

\* ------------------------------------------------------------------ inputs
AllPaths == <<"a", "b", "c">>

\* The position of a path in AllPaths, which is also its rank in the order of
\* PathBuf ("a" < "b" < "c").
PathIndex(p) == CHOOSE k \in 1..Len(AllPaths) : AllPaths[k] = p

PlainFiles == {"b"}            \* the roots that are plain files; the others are directories
Devs == {1, 2}                 \* device identifiers
Keys == {1, 2}                 \* hard-link identity keys
\* The files of the bounded file system: the logical length (m.len()) and the
\* result of size_on_disk_fast (-1 is Err, else Ok(n)).  One is sparse, the
\* other cannot be queried.
Files == {[len |-> 100, disk |-> 50], [len |-> 50, disk |-> -1]}

\* An item of walk_options.iter_from_path(): Err(_) of the walker ("err"),
\* Ok(entry) with client_state None ("none"), Some(Err(_)) ("meta_err") or
\* Some(Ok(m)) ("meta").
Meta(d, k, v, l, s) ==
    [kind |-> "meta", is_dir |-> d, key |-> k, dev |-> v, len |-> l, disk |-> s]

Bare(kind) ==
    [kind |-> kind, is_dir |-> FALSE, key |-> 0, dev |-> 0, len |-> 0, disk |-> 0]

NoEntry == Bare("null")

Entries ==
    {Bare("err"), Bare("none"), Bare("meta_err")}
      \cup {Meta(FALSE, k, v, f.len, f.disk) : k \in Keys, v \in Devs, f \in Files}
      \cup {Meta(TRUE, 1, v, 100, 50) : v \in Devs}

VARIABLES
    walk_options,   \* apparent_size, count_hard_links, cross_filesystems
    compute_total,
    sort_by_size_in_bytes,
    err,            \* the progress sink: "none", "ok" or "broken" (every write fails)
    paths,          \* the roots, in input order
    input,          \* opt.input: the paths of the command line
    cwd,            \* the working directory: device, read_dir(".") and its items
    pc,             \* "main", "loop", "walk", "emit", "done" (Ok), "failed" (Err)
    next_path,      \* index of the next root the for loop takes
    num_roots,
    num_bytes,
    num_errors,
    device_id,
    entry,          \* the walker item of the current iteration of the inner loop
    file_size,      \* what that item contributed (0 outside the Ok arm)
    res,            \* WalkResult: res.num_errors
    stats,          \* Statistics
    total,
    aggregates,
    inodes,         \* InodeFilter: the identity keys seen
    out,            \* the result sink: the lines written
    emitted,        \* how many sorted records the final loop has consumed
    trigger,        \* ThrottleWriter.trigger
    timer,          \* the timer thread: "none", "delay", "store", "sleep", "exited"
    ticks,          \* times the timer stored true into the trigger
    fired,          \* times throttled() ran its closure
    cleared,        \* times unthrottled() ran its closure
    progress        \* the progress sink: what was written

vars == <<walk_options, compute_total, sort_by_size_in_bytes, err, paths,
          input, cwd, pc,
          next_path, num_roots, num_bytes, num_errors, device_id, entry, file_size,
          res, stats, total, aggregates, inodes, out, emitted, trigger, timer,
          ticks, fired, cleared, progress>>

config == <<walk_options, compute_total, sort_by_size_in_bytes, err, paths,
            input, cwd>>

\* The ThrottleWriter lives until aggregate returns.
WriterAlive == pc \notin {"done", "failed"}

\* ------------------------------------------------- external collaborators
\* InodeFilter::add: "have I seen this identity key before", inserting on the
\* first check.  Returns what add() returns and the filter afterwards.
InodeAdd(seen, m) ==
    [ret |-> m.key \notin seen, inodes |-> seen \cup {m.key}]

\* crossdev::is_same_device(device_id, m)
is_same_device(dev, m) == m.dev = dev

\* ------------------------------------------------------ ThrottleWriter
\* ThrottleWriter::new: the timer thread is spawned only if out.is_some().
ThrottleWriterNew(some) == IF some THEN "delay" ELSE "none"

\* ThrottleWriter::unthrottled: f runs iff there is a sink.
Unthrottled(some) == some

\* throttled with trigger.load() for trigger.swap(false): the flag stays set.
ThrottledLoad(trig, some) ==
    [fire |-> trig /\ Unthrottled(some), trigger |-> trig]

\* ThrottleWriter::throttled: trigger.swap(false) and, if it was set,
\* unthrottled(f).  fire: whether f runs; trigger: the flag afterwards.
Throttled(trig, some) ==
    [fire |-> trig /\ Unthrottled(some), trigger |-> FALSE]

\* ------------------------------------------------------------ aggregate
\* The guard without the hard-link test.
CountedEveryLink(m, opts, dev, unseen) ==
    /\ ~m.is_dir
    /\ (opts.cross_filesystems \/ is_same_device(dev, m))

\* The guard without the device test.
CountedEveryDevice(m, opts, dev, unseen) ==
    /\ ~m.is_dir
    /\ (opts.count_hard_links \/ unseen)

\* The guard without the directory test.
CountedDirectories(m, opts, dev, unseen) ==
    /\ (opts.count_hard_links \/ unseen)
    /\ (opts.cross_filesystems \/ is_same_device(dev, m))

\* Lines 109-112, the guard of the first match arm; unseen is what
\* inodes.add(m) returns.
Counted(m, opts, dev, unseen) ==
    /\ ~m.is_dir
    /\ (opts.count_hard_links \/ unseen)
    /\ (opts.cross_filesystems \/ is_same_device(dev, m))

\* The size query whose failure is not counted.
SizeOfUncountedFailure(m, opts) ==
    IF opts.apparent_size
    THEN [file_size |-> m.len, errors |-> 0]
    ELSE IF m.disk >= 0
         THEN [file_size |-> m.disk, errors |-> 0]
         ELSE [file_size |-> 0, errors |-> 0]

\* Lines 114-121, the body of that arm: the logical length, or the size on
\* disk, whose failed query counts an error and gives 0.
SizeOf(m, opts) ==
    IF opts.apparent_size
    THEN [file_size |-> m.len, errors |-> 0]
    ELSE IF m.disk >= 0
         THEN [file_size |-> m.disk, errors |-> 0]
         ELSE [file_size |-> 0, errors |-> 1]

\* EntrySize with the same-device test ahead of inodes.add.
EntrySizeDeviceFirst(e, opts, dev, seen) ==
    IF e.kind = "meta"
    THEN LET asked == /\ ~e.is_dir /\ ~opts.count_hard_links
                      /\ (opts.cross_filesystems \/ is_same_device(dev, e))
             added == InodeAdd(seen, e)
             after == IF asked THEN added.inodes ELSE seen
         IN  IF Counted(e, opts, dev, added.ret)
             THEN [file_size |-> SizeOf(e, opts).file_size,
                   errors |-> SizeOf(e, opts).errors,
                   inodes |-> after]
             ELSE [file_size |-> 0, errors |-> 0, inodes |-> after]
    ELSE IF e.kind = "meta_err"
         THEN [file_size |-> 0, errors |-> 1, inodes |-> seen]
         ELSE [file_size |-> 0, errors |-> 0, inodes |-> seen]

\* Lines 107-129, the match on entry.client_state of an Ok(entry): the file
\* size, the errors it adds to num_errors and the InodeFilter afterwards.  &&
\* evaluates left to right and stops at the first false operand, so inodes.add
\* runs exactly for a non-directory while hard links are not counted.
EntrySize(e, opts, dev, seen) ==
    IF e.kind = "meta"
    THEN LET asked == ~e.is_dir /\ ~opts.count_hard_links
             added == InodeAdd(seen, e)
             after == IF asked THEN added.inodes ELSE seen
         IN  IF Counted(e, opts, dev, added.ret)
             THEN [file_size |-> SizeOf(e, opts).file_size,
                   errors |-> SizeOf(e, opts).errors,
                   inodes |-> after]
             ELSE [file_size |-> 0, errors |-> 0, inodes |-> after]
    ELSE IF e.kind = "meta_err"
         THEN [file_size |-> 0, errors |-> 1, inodes |-> seen]
         ELSE [file_size |-> 0, errors |-> 0, inodes |-> seen]

Max(a, b) == IF a >= b THEN a ELSE b

\* The minimum that passes over a size of 0.
MinOfNonZero(a, b) == IF b # 0 /\ b <= a THEN b ELSE a

Min(a, b) == IF a <= b THEN a ELSE b

\* path_color_of: Cyan unless the path is a plain file.
path_color_of(path) == IF path \in PlainFiles THEN "none" ELSE "cyan"

\* output_colored_path: the line it writes.  The byte count goes through the
\* byte formatter; the error suffix is there iff num_errors != 0, with the
\* plural "s" iff num_errors > 1.
Line(path, bytes, errors, color) ==
    [path |-> path, size |-> bytes,
     errors |-> errors,
     suffix |-> IF errors # 0
                THEN IF errors > 1 THEN "IO Errors" ELSE "IO Error"
                ELSE "",
     color |-> color]

\* The tuples pushed to aggregates.
Record(path, bytes, errors) == [path |-> path, num_bytes |-> bytes, num_errors |-> errors]

\* aggregates.sort_by_key(|&(_, num_bytes, _)| num_bytes): a stable sort,
\* ascending.  Insert(s, r) puts r after every record whose key is <= its own.
\* Insert with < for <=: r goes before the records of equal key.
RECURSIVE InsertBeforeEqual(_, _)
InsertBeforeEqual(s, r) ==
    IF s = <<>> THEN <<r>>
    ELSE IF s[Len(s)].num_bytes < r.num_bytes
         THEN Append(s, r)
         ELSE Append(InsertBeforeEqual(SubSeq(s, 1, Len(s) - 1), r), s[Len(s)])

RECURSIVE Insert(_, _)
Insert(s, r) ==
    IF s = <<>> THEN <<r>>
    ELSE IF s[Len(s)].num_bytes <= r.num_bytes
         THEN Append(s, r)
         ELSE Append(Insert(SubSeq(s, 1, Len(s) - 1), r), s[Len(s)])

RECURSIVE SortByKey(_)
SortByKey(s) ==
    IF s = <<>> THEN <<>>
    ELSE Insert(SortByKey(SubSeq(s, 1, Len(s) - 1)), s[Len(s)])

\* ------------------------------------------------------------ paths_from
\* The names in the working directory.
CwdNames == {AllPaths[k] : k \in 1..MaxRoots}

\* An item of read_dir("."): listed is whether the item is Ok; link is what
\* symlink_metadata() says of it ("err": it fails); dev is the device in
\* metadata(), 0 if metadata() fails.
CwdItems ==
    [name : CwdNames, listed : {FALSE}, link : {"no"}, dev : {0}]
        \cup [name : CwdNames, listed : {TRUE}, link : {"no", "yes", "err"},
              dev : {0} \cup Devs]

\* The working directories: device is crossdev::init of current_dir(), 0 if
\* either fails; read_dir is whether read_dir(".") succeeds; items come in the
\* order of read_dir, each name once.
Cwds ==
    [device : {0} \cup Devs, read_dir : {FALSE}, items : {<<>>}]
        \cup [device : {0} \cup Devs, read_dir : {TRUE},
              items : {s \in UNION {[1..n -> CwdItems] : n \in 0..MaxRoots} :
                         \A i, j \in 1..Len(s) : i # j => s[i].name # s[j].name}]

\* An empty working directory, on no known device.
EmptyCwd == [device |-> 0, read_dir |-> TRUE, items |-> <<>>]

\* The lists of paths given on the command line.
Inputs == {<<>>, <<"b">>, <<"b", "a">>}

\* v.sort() of cwd_dirlist, by insertion.
InsertPath(s, p) ==
    LET k == Cardinality({i \in 1..Len(s) : PathIndex(s[i]) <= PathIndex(p)})
    IN  SubSeq(s, 1, k) \o <<p>> \o SubSeq(s, k + 1, Len(s))

RECURSIVE SortPaths(_)
SortPaths(s) ==
    IF s = <<>> THEN <<>>
    ELSE InsertPath(SortPaths(SubSeq(s, 1, Len(s) - 1)), s[Len(s)])

\* cwd_dirlist: the items of read_dir(".") that are Ok and are not known to be
\* symbolic links, sorted.  ok is FALSE for the io::Error of read_dir.
cwd_dirlist(c) ==
    LET Kept(e) == e.listed /\ e.link # "yes"
        kept == SelectSeq(c.items, Kept)
    IN  [ok |-> c.read_dir,
         paths |-> IF c.read_dir
                   THEN SortPaths([i \in 1..Len(kept) |-> kept[i].name])
                   ELSE <<>>]

\* p.metadata() for a path of the working directory.
MetadataOf(p, c) == CHOOSE e \in {c.items[i] : i \in 1..Len(c.items)} : e.name = p

\* paths_from with Err(_) => false in the filter.
paths_from_readable(ps, cross_filesystems, c) ==
    IF ps = <<>>
    THEN LET l == cwd_dirlist(c)
             Same(p) == /\ MetadataOf(p, c).dev # 0
                        /\ is_same_device(c.device, MetadataOf(p, c))
         IN  [ok |-> l.ok,
              paths |-> IF c.device # 0 /\ ~cross_filesystems
                        THEN SelectSeq(l.paths, Same)
                        ELSE l.paths]
    ELSE [ok |-> TRUE, paths |-> ps]

\* paths_from (main.rs): an explicit list as it is; else the listing of the
\* working directory, filtered by device if its device is known and
\* cross_filesystems is off.
paths_from(ps, cross_filesystems, c) ==
    IF ps = <<>>
    THEN LET l == cwd_dirlist(c)
             Same(p) == \/ MetadataOf(p, c).dev = 0
                        \/ is_same_device(c.device, MetadataOf(p, c))
         IN  [ok |-> l.ok,
              paths |-> IF c.device # 0 /\ ~cross_filesystems
                        THEN SelectSeq(l.paths, Same)
                        ELSE l.paths]
    ELSE [ok |-> TRUE, paths |-> ps]

\* -------------------------------------------------------------------- Init
\* The state at the entry of aggregate.  What main was given is not looked at
\* again: it stands as an explicit list, or an empty working directory.
Init ==
    /\ walk_options \in [apparent_size : BOOLEAN, count_hard_links : BOOLEAN,
                         cross_filesystems : BOOLEAN]
    /\ compute_total \in BOOLEAN
    /\ sort_by_size_in_bytes \in BOOLEAN
    /\ err \in {"none", "ok", "broken"}
    /\ paths \in {SubSeq(AllPaths, 1, n) : n \in 0..MaxRoots}
    /\ input = paths
    /\ cwd = EmptyCwd
    /\ pc = "loop"
    /\ next_path = 1
    /\ num_roots = 0
    /\ num_bytes = 0
    /\ num_errors = 0
    /\ device_id = 0
    /\ entry = NoEntry
    /\ file_size = 0
    /\ res = [num_errors |-> 0]
    /\ stats = [entries_traversed |-> 0, smallest_file_in_bytes |-> U128Max,
                largest_file_in_bytes |-> 0]
    /\ total = 0
    /\ aggregates = <<>>
    /\ inodes = {}
    /\ out = <<>>
    /\ emitted = 0
    /\ trigger = FALSE
    /\ timer = ThrottleWriterNew(err # "none")
    /\ ticks = 0
    /\ fired = 0
    /\ cleared = 0
    /\ progress = <<>>

\* ----------------------------------------------------------- main thread
\* The locals of one iteration of the for loop go out of scope at its end.
EndOfIteration ==
    /\ num_bytes' = 0
    /\ num_errors' = 0
    /\ device_id' = 0
    /\ entry' = NoEntry
    /\ file_size' = 0
    /\ next_path' = next_path + 1
    /\ pc' = "loop"

\* crossdev::init(path)? for the match: the failure is returned.
RootDeviceErrReturned ==
    /\ pc = "loop"
    /\ next_path <= Len(paths)
    /\ num_roots' = num_roots + 1
    /\ pc' = "failed"
    /\ UNCHANGED <<config, next_path, num_bytes, num_errors, device_id, entry,
                   file_size, res, stats, total, aggregates, inodes, out, emitted,
                   trigger, timer, ticks, fired, cleared, progress>>

\* The Err arm without its continue: the root's error is added once more at
\* the end of the iteration (line 154).
RootDeviceErrCountedTwice ==
    /\ pc = "loop"
    /\ next_path <= Len(paths)
    /\ num_roots' = num_roots + 1
    /\ res' = [res EXCEPT !.num_errors = @ + 1 + 1]
    /\ aggregates' = Append(aggregates, Record(paths[next_path], 0, 0 + 1))
    /\ EndOfIteration
    /\ UNCHANGED <<config, stats, total, inodes, out, emitted, trigger, timer,
                   ticks, fired, cleared, progress>>

\* Lines 87-99, crossdev::init fails: the root is recorded and skipped.
RootDeviceErr ==
    /\ pc = "loop"
    /\ next_path <= Len(paths)
    /\ num_roots' = num_roots + 1
    /\ res' = [res EXCEPT !.num_errors = @ + 1]
    /\ aggregates' = Append(aggregates, Record(paths[next_path], 0, 0 + 1))
    /\ EndOfIteration
    /\ UNCHANGED <<config, stats, total, inodes, out, emitted, trigger, timer,
                   ticks, fired, cleared, progress>>

\* Lines 87-92, crossdev::init succeeds: the walk of the root starts.
RootDeviceOk ==
    /\ pc = "loop"
    /\ next_path <= Len(paths)
    /\ \E id \in Devs : device_id' = id
    /\ num_roots' = num_roots + 1
    /\ num_bytes' = 0
    /\ num_errors' = 0
    /\ pc' = "walk"
    /\ UNCHANGED <<config, next_path, entry, file_size, res, stats, total,
                   aggregates, inodes, out, emitted, trigger, timer, ticks,
                   fired, cleared, progress>>

\* WalkEntry with the 0 bytes of a walker error folded into the statistics.
WalkEntryErrorAsZero ==
    /\ pc = "walk"
    /\ stats.entries_traversed < MaxEntries
    /\ \E e \in Entries :
         LET n == stats.entries_traversed + 1
             t == Throttled(trigger, err # "none")
             fire == t.fire
             r == EntrySize(e, walk_options, device_id, inodes)
         IN  /\ entry' = e
             /\ trigger' = t.trigger
             /\ fired' = IF fire THEN fired + 1 ELSE fired
             /\ progress' = IF fire /\ err = "ok"
                            THEN Append(progress, [kind |-> "enumerating", n |-> n])
                            ELSE progress
             /\ IF e.kind = "err"
                THEN /\ num_errors' = num_errors + 1
                     /\ stats' =
                          [entries_traversed |-> n,
                           largest_file_in_bytes |->
                               Max(stats.largest_file_in_bytes, 0),
                           smallest_file_in_bytes |->
                               Min(stats.smallest_file_in_bytes, 0)]
                     /\ file_size' = 0
                     /\ UNCHANGED <<num_bytes, inodes>>
                ELSE /\ file_size' = r.file_size
                     /\ num_errors' = num_errors + r.errors
                     /\ inodes' = r.inodes
                     /\ stats' =
                          [entries_traversed |-> n,
                           largest_file_in_bytes |->
                               Max(stats.largest_file_in_bytes, r.file_size),
                           smallest_file_in_bytes |->
                               Min(stats.smallest_file_in_bytes, r.file_size)]
                     /\ num_bytes' = num_bytes + r.file_size
    /\ UNCHANGED <<config, pc, next_path, num_roots, device_id, res, total,
                   aggregates, out, emitted, timer, ticks, cleared>>

\* Lines 100-136: one iteration of the inner loop, for the walker item e.
\* The result of the write! to the progress sink is dropped by .ok().
WalkEntry ==
    /\ pc = "walk"
    /\ stats.entries_traversed < MaxEntries
    /\ \E e \in Entries :
         LET n == stats.entries_traversed + 1
             t == Throttled(trigger, err # "none")
             fire == t.fire
             r == EntrySize(e, walk_options, device_id, inodes)
         IN  /\ entry' = e
             /\ trigger' = t.trigger
             /\ fired' = IF fire THEN fired + 1 ELSE fired
             /\ progress' = IF fire /\ err = "ok"
                            THEN Append(progress, [kind |-> "enumerating", n |-> n])
                            ELSE progress
             /\ IF e.kind = "err"
                THEN /\ num_errors' = num_errors + 1
                     /\ stats' = [stats EXCEPT !.entries_traversed = n]
                     /\ file_size' = 0
                     /\ UNCHANGED <<num_bytes, inodes>>
                ELSE /\ file_size' = r.file_size
                     /\ num_errors' = num_errors + r.errors
                     /\ inodes' = r.inodes
                     /\ stats' =
                          [entries_traversed |-> n,
                           largest_file_in_bytes |->
                               Max(stats.largest_file_in_bytes, r.file_size),
                           smallest_file_in_bytes |->
                               Min(stats.smallest_file_in_bytes, r.file_size)]
                     /\ num_bytes' = num_bytes + r.file_size
    /\ UNCHANGED <<config, pc, next_path, num_roots, device_id, res, total,
                   aggregates, out, emitted, timer, ticks, cleared>>

\* The clear-line sequence written with throttled for unthrottled.
ClearLineThrottled ==
    /\ cleared' = IF Throttled(trigger, err # "none").fire THEN cleared + 1 ELSE cleared
    /\ progress' = IF Throttled(trigger, err # "none").fire /\ err = "ok"
                   THEN Append(progress, [kind |-> "clear", n |-> 0])
                   ELSE progress

\* Lines 137-139: the clear-line sequence, once the walker is exhausted.
ClearLine ==
    /\ cleared' = IF Unthrottled(err # "none") THEN cleared + 1 ELSE cleared
    /\ progress' = IF Unthrottled(err # "none") /\ err = "ok"
                   THEN Append(progress, [kind |-> "clear", n |-> 0])
                   ELSE progress

\* The end of a root that writes the line at once although sorting is asked for.
RootEndSortedWrittenAtOnce ==
    /\ pc = "walk"
    /\ sort_by_size_in_bytes
    /\ ClearLine
    /\ aggregates' = Append(aggregates, Record(paths[next_path], num_bytes, num_errors))
    /\ out' = Append(out, Line(paths[next_path], num_bytes, num_errors,
                               path_color_of(paths[next_path])))
    /\ total' = total + num_bytes
    /\ res' = [res EXCEPT !.num_errors = @ + num_errors]
    /\ EndOfIteration
    /\ UNCHANGED <<config, num_roots, stats, inodes, emitted, trigger, timer,
                   ticks, fired>>

\* Lines 137-155 with sort_by_size_in_bytes: the record is buffered.
RootEndSorted ==
    /\ pc = "walk"
    /\ sort_by_size_in_bytes
    /\ ClearLine
    /\ aggregates' = Append(aggregates, Record(paths[next_path], num_bytes, num_errors))
    /\ total' = total + num_bytes
    /\ res' = [res EXCEPT !.num_errors = @ + num_errors]
    /\ EndOfIteration
    /\ UNCHANGED <<config, num_roots, stats, inodes, out, emitted, trigger, timer,
                   ticks, fired>>

\* Lines 137-155 without it: the line is written at once; a failed write
\* returns the error.
RootEndImmediate ==
    /\ pc = "walk"
    /\ ~sort_by_size_in_bytes
    /\ ClearLine
    /\ \E ok \in BOOLEAN :
         IF ok
         THEN /\ out' = Append(out, Line(paths[next_path], num_bytes, num_errors,
                                         path_color_of(paths[next_path])))
              /\ total' = total + num_bytes
              /\ res' = [res EXCEPT !.num_errors = @ + num_errors]
              /\ EndOfIteration
         ELSE /\ pc' = "failed"
              /\ UNCHANGED <<out, total, res, num_bytes, num_errors, device_id,
                             entry, file_size, next_path>>
    /\ UNCHANGED <<config, num_roots, stats, aggregates, inodes, emitted, trigger,
                   timer, ticks, fired>>

\* The end of the loop without the smallest-file fix-up.
RootsDoneWithoutFixUp ==
    /\ pc = "loop"
    /\ next_path > Len(paths)
    /\ aggregates' = IF sort_by_size_in_bytes THEN SortByKey(aggregates) ELSE aggregates
    /\ pc' = "emit"
    /\ UNCHANGED <<config, next_path, num_roots, num_bytes, num_errors, device_id,
                   entry, file_size, res, stats, total, inodes, out, emitted,
                   trigger, timer, ticks, fired, cleared, progress>>

\* Lines 157-162: after the last root, the smallest-file fix-up and the sort.
RootsDone ==
    /\ pc = "loop"
    /\ next_path > Len(paths)
    /\ stats' = IF stats.entries_traversed = 0
                THEN [stats EXCEPT !.smallest_file_in_bytes = 0]
                ELSE stats
    /\ aggregates' = IF sort_by_size_in_bytes THEN SortByKey(aggregates) ELSE aggregates
    /\ pc' = "emit"
    /\ UNCHANGED <<config, next_path, num_roots, num_bytes, num_errors, device_id,
                   entry, file_size, res, total, inodes, out, emitted,
                   trigger, timer, ticks, fired, cleared, progress>>

\* Lines 163-172: one sorted record is written.
EmitSorted ==
    /\ pc = "emit"
    /\ sort_by_size_in_bytes
    /\ emitted < Len(aggregates)
    /\ \E ok \in BOOLEAN :
         LET a == aggregates[emitted + 1]
         IN  IF ok
             THEN /\ out' = Append(out, Line(a.path, a.num_bytes, a.num_errors,
                                             path_color_of(a.path)))
                  /\ emitted' = emitted + 1
                  /\ pc' = pc
             ELSE /\ pc' = "failed"
                  /\ UNCHANGED <<out, emitted>>
    /\ UNCHANGED <<config, next_path, num_roots, num_bytes, num_errors, device_id,
                   entry, file_size, res, stats, total, aggregates, inodes,
                   trigger, timer, ticks, fired, cleared, progress>>

\* Finish with num_roots >= 1 for num_roots > 1.
FinishSingleRootTotal ==
    /\ pc = "emit"
    /\ sort_by_size_in_bytes => emitted = Len(aggregates)
    /\ IF num_roots >= 1 /\ compute_total
       THEN \E ok \in BOOLEAN :
              IF ok
              THEN /\ out' = Append(out, Line("total", total, res.num_errors, "none"))
                   /\ pc' = "done"
              ELSE /\ pc' = "failed"
                   /\ out' = out
       ELSE /\ pc' = "done"
            /\ out' = out
    /\ UNCHANGED <<config, next_path, num_roots, num_bytes, num_errors, device_id,
                   entry, file_size, res, stats, total, aggregates, inodes,
                   emitted, trigger, timer, ticks, fired, cleared, progress>>

\* Finish with a drop of the ThrottleWriter that joins the timer thread.
FinishJoinsTimer ==
    /\ timer \in {"none", "exited"}
    /\ pc = "emit"
    /\ sort_by_size_in_bytes => emitted = Len(aggregates)
    /\ IF num_roots > 1 /\ compute_total
       THEN \E ok \in BOOLEAN :
              IF ok
              THEN /\ out' = Append(out, Line("total", total, res.num_errors, "none"))
                   /\ pc' = "done"
              ELSE /\ pc' = "failed"
                   /\ out' = out
       ELSE /\ pc' = "done"
            /\ out' = out
    /\ UNCHANGED <<config, next_path, num_roots, num_bytes, num_errors, device_id,
                   entry, file_size, res, stats, total, aggregates, inodes,
                   emitted, trigger, timer, ticks, fired, cleared, progress>>

\* Lines 175-185: the total line, if any, and the return.
Finish ==
    /\ pc = "emit"
    /\ sort_by_size_in_bytes => emitted = Len(aggregates)
    /\ IF num_roots > 1 /\ compute_total
       THEN \E ok \in BOOLEAN :
              IF ok
              THEN /\ out' = Append(out, Line("total", total, res.num_errors, "none"))
                   /\ pc' = "done"
              ELSE /\ pc' = "failed"
                   /\ out' = out
       ELSE /\ pc' = "done"
            /\ out' = out
    /\ UNCHANGED <<config, next_path, num_roots, num_bytes, num_errors, device_id,
                   entry, file_size, res, stats, total, aggregates, inodes,
                   emitted, trigger, timer, ticks, fired, cleared, progress>>

\* ---------------------------------------------------------- timer thread
main_vars == <<config, pc, next_path, num_roots, num_bytes, num_errors, device_id,
               entry, file_size, res, stats, total, aggregates, inodes,
               out, emitted, fired, cleared, progress>>

\* The thread holding the Arc itself: upgrade() never fails.
UpgradeOfStrong ==
    ticks < MaxTicks /\ timer' = "store"

\* Line 36: trigger.upgrade() succeeds while the ThrottleWriter lives; after
\* a failed upgrade the loop and the thread end.
Upgrade ==
    IF WriterAlive
    THEN ticks < MaxTicks /\ timer' = "store"
    ELSE timer' = "exited"

\* Lines 35-36: the initial delay of one second is over.
TimerDelay ==
    /\ timer = "delay"
    /\ Upgrade
    /\ UNCHANGED <<main_vars, trigger, ticks>>

\* Line 37: t.store(true), then the thread sleeps.
TimerStore ==
    /\ timer = "store"
    /\ trigger' = TRUE
    /\ ticks' = ticks + 1
    /\ timer' = "sleep"
    /\ UNCHANGED main_vars

\* Lines 38 and 36: thread::sleep(duration) is over.
TimerWake ==
    /\ timer = "sleep"
    /\ Upgrade
    /\ UNCHANGED <<main_vars, trigger, ticks>>

\* The main thread: aggregate.
NextMain ==
    \/ RootDeviceErr
    \/ RootDeviceOk
    \/ WalkEntry
    \/ RootEndSorted
    \/ RootEndImmediate
    \/ RootsDone
    \/ EmitSorted
    \/ Finish

\* The timer thread of the ThrottleWriter.
NextTimer ==
    \/ TimerDelay
    \/ TimerStore
    \/ TimerWake

Next == NextMain \/ NextTimer

\* aggregate with any progress sink, and the timer thread beside it.
Spec == Init /\ [][Next]_vars

\* aggregate called with err = None (standard error is not a terminal): no
\* timer thread is spawned, so the main thread runs alone.
InitNoProgress == Init /\ err = "none"

SpecNoProgress == InitNoProgress /\ [][NextMain]_vars

\* main up to the call of aggregate: the arguments are parsed and paths_from
\* has not run yet.
InitMain ==
    /\ walk_options \in [apparent_size : {FALSE}, count_hard_links : {FALSE},
                         cross_filesystems : BOOLEAN]
    /\ compute_total = TRUE
    /\ sort_by_size_in_bytes = TRUE
    /\ err = "none"
    /\ input \in Inputs
    /\ cwd \in Cwds
    /\ paths = <<>>
    /\ pc = "main"
    /\ next_path = 1
    /\ num_roots = 0
    /\ num_bytes = 0
    /\ num_errors = 0
    /\ device_id = 0
    /\ entry = NoEntry
    /\ file_size = 0
    /\ res = [num_errors |-> 0]
    /\ stats = [entries_traversed |-> 0, smallest_file_in_bytes |-> U128Max,
                largest_file_in_bytes |-> 0]
    /\ total = 0
    /\ aggregates = <<>>
    /\ inodes = {}
    /\ out = <<>>
    /\ emitted = 0
    /\ trigger = FALSE
    /\ timer = "none"
    /\ ticks = 0
    /\ fired = 0
    /\ cleared = 0
    /\ progress = <<>>

\* main.rs lines 113-121: paths_from(opt.input, !opt.stay_on_filesystem)?
\* gives aggregate its roots, or main returns the error of read_dir.
CallPathsFrom ==
    /\ pc = "main"
    /\ LET r == paths_from(input, walk_options.cross_filesystems, cwd)
       IN  IF r.ok
           THEN paths' = r.paths /\ pc' = "loop"
           ELSE paths' = paths /\ pc' = "failed"
    /\ UNCHANGED <<walk_options, compute_total, sort_by_size_in_bytes, err, input,
                   cwd, next_path, num_roots, num_bytes, num_errors, device_id,
                   entry, file_size, res, stats, total, aggregates, inodes, out,
                   emitted, trigger, timer, ticks, fired, cleared, progress>>

SpecMain == InitMain /\ [][CallPathsFrom]_vars

\* Spec with scheduling: the main thread runs whenever it can; the timer
\* thread is only known to be scheduled again (its sleep ending) once the
\* ThrottleWriter is dropped, before that its pace is arbitrary.
SpecFair ==
    /\ Spec
    /\ WF_vars(NextMain)
    /\ WF_vars(~WriterAlive /\ NextTimer)


\* ================================================================ claims
\* What the result sink holds: the total line, if written, and before it the
\* lines of the roots.
TotalLineWritten == Len(out) > 0 /\ out[Len(out)].path = "total"

RootLines == IF TotalLineWritten THEN SubSeq(out, 1, Len(out) - 1) ELSE out

RECURSIVE SumSizes(_)
SumSizes(lines) ==
    IF lines = <<>> THEN 0
    ELSE SumSizes(SubSeq(lines, 1, Len(lines) - 1)) + lines[Len(lines)].size

RECURSIVE SumBytes(_)
SumBytes(records) ==
    IF records = <<>> THEN 0
    ELSE SumBytes(SubSeq(records, 1, Len(records) - 1))
           + records[Len(records)].num_bytes

Ascending(lines) ==
    \A i, j \in 1..Len(lines) : i < j => lines[i].size <= lines[j].size

TiesInInputOrder(lines) ==
    \A i, j \in 1..Len(lines) :
        i < j /\ lines[i].size = lines[j].size
            => PathIndex(lines[i].path) < PathIndex(lines[j].path)

Shown(lines) == [k \in 1..Len(lines) |-> <<lines[k].size, lines[k].path>>]

\* C1: when aggregate returns Ok (no write to the result sink failed), the
\* sink holds exactly one line per root: in input order without sorting, in
\* ascending order of size with it; and every root whose device identity could
\* not be resolved (the records pushed with 0 bytes and 1 error) has its line.
C1_OneLinePerRoot ==
    pc = "done" =>
        /\ Len(RootLines) = Len(paths)
        /\ ~sort_by_size_in_bytes =>
               \A k \in 1..Len(RootLines) : RootLines[k].path = paths[k]
        /\ sort_by_size_in_bytes =>
               /\ Ascending(RootLines)
               /\ {RootLines[k].path : k \in 1..Len(RootLines)}
                    = {paths[k] : k \in 1..Len(paths)}
        /\ \A i \in 1..Len(aggregates) :
               aggregates[i].num_bytes = 0 /\ aggregates[i].num_errors = 1
                   => \E k \in 1..Len(RootLines) :
                          /\ RootLines[k].path = aggregates[i].path
                          /\ RootLines[k].size = 0
                          /\ RootLines[k].errors = 1

C3_SortedOutput ==
    /\ pc = "done" => total = SumSizes(RootLines)
    /\ sort_by_size_in_bytes =>
        /\ Ascending(RootLines)
        /\ TiesInInputOrder(RootLines)
        /\ total = SumBytes(aggregates)
        /\ pc = "done" => Len(RootLines) = Len(paths)
        /\ ( /\ pc = "done"
             /\ compute_total
             /\ paths = <<"a", "b">>
             /\ \E i \in 1..Len(aggregates) : aggregates[i] = Record("a", 100, 0)
             /\ \E i \in 1..Len(aggregates) : aggregates[i] = Record("b", 50, 0) )
           => Shown(out) = <<<<50, "b">>, <<100, "a">>, <<150, "total">>>>

C3_Witness ==
    /\ pc = "done"
    /\ sort_by_size_in_bytes
    /\ Shown(out) = <<<<50, "b">>, <<100, "a">>, <<150, "total">>>>

\* Two roots of equal size, written in input order.
C3_TieWitness ==
    /\ pc = "done"
    /\ sort_by_size_in_bytes
    /\ Shown(out) = <<<<50, "a">>, <<50, "b">>>>


\* A step of the inner loop (WalkEntry): entry' is the item it processes.
EntryStep == pc = "walk" /\ stats'.entries_traversed = stats.entries_traversed + 1

\* The step that skips a root whose device identity is not resolved.
DeviceErrStep == pc = "loop" /\ pc' = "loop" /\ num_roots' = num_roots + 1

\* A non-directory with readable metadata that the guard lets through.
Eligible(e) ==
    /\ e.kind = "meta"
    /\ ~e.is_dir
    /\ (walk_options.count_hard_links \/ e.key \notin inodes)
    /\ (walk_options.cross_filesystems \/ e.dev = device_id)

\* C4: while hard links are not counted, the identity tracker only grows
\* during the run (it is shared by all roots), every non-directory that is
\* processed has its key in it afterwards, and an entry whose key is in it
\* already contributes 0 bytes and no error.
C4_HardLinksCountedOnce ==
    [][ /\ inodes \subseteq inodes'
        /\ ( /\ EntryStep
             /\ ~walk_options.count_hard_links
             /\ entry'.kind = "meta"
             /\ ~entry'.is_dir )
           => /\ entry'.key \in inodes'
              /\ entry'.key \in inodes
                   => /\ file_size' = 0
                      /\ num_bytes' = num_bytes
                      /\ num_errors' = num_errors
                      /\ total' = total
                      /\ res' = res ]_vars

\* The only item of the second root has the key of the first root's file.
C4_Witness ==
    /\ pc = "walk"
    /\ next_path = 2
    /\ stats.entries_traversed = 2
    /\ aggregates = <<Record("a", 100, 0)>>
    /\ ~walk_options.count_hard_links
    /\ walk_options.apparent_size
    /\ walk_options.cross_filesystems
    /\ entry.kind = "meta" /\ ~entry.is_dir /\ entry.len = 100
    /\ file_size = 0
    /\ num_bytes = 0
    /\ num_errors = 0

\* C5: without cross-filesystem traversal an entry on another device than
\* its root contributes 0 bytes and no error; with it, an entry the other
\* tests let through contributes its size whatever its device.
C5_OtherDevice ==
    [][ (EntryStep /\ entry'.kind = "meta")
        => /\ (~walk_options.cross_filesystems /\ entry'.dev # device_id)
                => /\ file_size' = 0
                   /\ num_bytes' = num_bytes
                   /\ num_errors' = num_errors
           /\ ( /\ walk_options.cross_filesystems
                /\ ~entry'.is_dir
                /\ (walk_options.count_hard_links \/ entry'.key \notin inodes) )
                => /\ walk_options.apparent_size => file_size' = entry'.len
                   /\ (~walk_options.apparent_size /\ entry'.disk >= 0)
                          => file_size' = entry'.disk
                   /\ num_bytes' = num_bytes + file_size' ]_vars

C5_Witness ==
    /\ pc = "walk"
    /\ ~walk_options.cross_filesystems
    /\ walk_options.count_hard_links
    /\ walk_options.apparent_size
    /\ entry.kind = "meta" /\ ~entry.is_dir /\ entry.len = 100
    /\ entry.dev # device_id
    /\ stats.entries_traversed = 1
    /\ file_size = 0
    /\ num_bytes = 0
    /\ num_errors = 0

\* C6: a directory contributes 0 bytes and no error, whatever the options.
C6_Directory ==
    [][ (EntryStep /\ entry'.kind = "meta" /\ entry'.is_dir)
        => /\ file_size' = 0
           /\ num_bytes' = num_bytes
           /\ num_errors' = num_errors ]_vars

C6_Witness ==
    /\ pc = "walk"
    /\ walk_options.apparent_size
    /\ walk_options.count_hard_links
    /\ walk_options.cross_filesystems
    /\ entry.kind = "meta" /\ entry.is_dir /\ entry.len = 100
    /\ stats.entries_traversed = 1
    /\ file_size = 0
    /\ num_bytes = 0
    /\ num_errors = 0

\* C7: in on-disk mode a failed size query of an eligible entry gives 0
\* bytes and one more error for the root, and the walk goes on from the state
\* a successful query of 0 bytes would have left.
C7_SizeQueryFailure ==
    [][ ( /\ EntryStep
          /\ ~walk_options.apparent_size
          /\ Eligible(entry')
          /\ entry'.disk < 0 )
        => /\ file_size' = 0
           /\ num_bytes' = num_bytes
           /\ num_errors' = num_errors + 1
           /\ pc' = "walk"
           /\ stats'.smallest_file_in_bytes = 0
           /\ stats'.largest_file_in_bytes = stats.largest_file_in_bytes
           /\ inodes' = IF walk_options.count_hard_links
                        THEN inodes ELSE inodes \cup {entry'.key}
           /\ UNCHANGED <<next_path, num_roots, device_id, res, total, aggregates,
                          out, emitted>> ]_vars

\* The second item of a root fails its size query after the first gave 50.
C7_Witness ==
    /\ pc = "walk"
    /\ ~walk_options.apparent_size
    /\ entry.kind = "meta" /\ ~entry.is_dir /\ entry.disk < 0
    /\ stats.entries_traversed = 2
    /\ file_size = 0
    /\ num_bytes = 50
    /\ num_errors = 1

\* C8: a root whose device identity is not resolved is recorded with 0
\* bytes and 1 error, the global error count rises by 1, nothing of the root is
\* traversed (statistics, identity tracker, grand total and both sinks are
\* untouched), and the loop goes on with the next root.
C8_DeviceFailure ==
    [][ DeviceErrStep
        => /\ res'.num_errors = res.num_errors + 1
           /\ aggregates' = Append(aggregates, Record(paths[next_path], 0, 1))
           /\ next_path' = next_path + 1
           /\ UNCHANGED <<stats, inodes, total, out, progress, fired, cleared>> ]_vars

\* Root b is traversed after root a failed.
C8_Witness ==
    /\ pc = "walk"
    /\ next_path = 2
    /\ aggregates = <<Record("a", 0, 1)>>
    /\ res.num_errors = 1
    /\ stats.entries_traversed = 1
    /\ num_bytes = 100

\* C9: aggregate returns an error only out of a write of a result line (the
\* immediate line of a root, a sorted line or the total line), which leaves
\* the sink as it was; after it nothing is written or traversed any more.  No
\* step of the inner loop and no skipped root ends the call.
C9_OnlySinkFailureAborts ==
    [][ /\ (pc # "failed" /\ pc' = "failed")
            => /\ (pc = "walk" /\ ~sort_by_size_in_bytes) \/ pc = "emit"
               /\ out' = out
        /\ pc \in {"done", "failed"} => UNCHANGED main_vars
        /\ EntryStep => pc' = "walk"
        /\ pc = "loop" => pc' \in {"loop", "walk", "emit"} ]_vars

\* The write of the first root's line fails: the second root is not taken.
C9_Witness ==
    /\ pc = "failed"
    /\ Len(paths) = 2
    /\ next_path = 1
    /\ num_roots = 1
    /\ num_errors = 2
    /\ out = <<>>

\* A call with a broken progress sink, a skipped root and entry errors
\* returns Ok.
C9_AbsorbedWitness ==
    /\ pc = "done"
    /\ err = "broken"
    /\ fired = 1
    /\ cleared = 1
    /\ res.num_errors = 3
    /\ Len(out) = 1

\* C10: the closure given to throttled has run at most as often as the
\* timer has set the trigger, and not at all while the timer is in its initial
\* delay; without a progress sink there is no timer thread, the trigger is
\* never set and no closure runs.
C10_Throttle ==
    /\ fired <= ticks
    /\ timer = "delay" => (fired = 0 /\ ticks = 0 /\ ~trigger)
    /\ err = "none" =>
           /\ timer = "none"
           /\ ~trigger
           /\ ticks = 0
           /\ fired = 0
           /\ cleared = 0
           /\ progress = <<>>

C10_Witness ==
    /\ err = "ok"
    /\ fired = 1
    /\ ticks = 1
    /\ progress = <<[kind |-> "enumerating", n |-> 2]>>


\* ------------------------------------------------------------ C11 .. C20
RECURSIVE SumErrors(_)
SumErrors(records) ==
    IF records = <<>> THEN 0
    ELSE SumErrors(SubSeq(records, 1, Len(records) - 1))
           + records[Len(records)].num_errors

RECURSIVE SumLineErrors(_)
SumLineErrors(lines) ==
    IF lines = <<>> THEN 0
    ELSE SumLineErrors(SubSeq(lines, 1, Len(lines) - 1)) + lines[Len(lines)].errors

\* What the walker item e is a failure of, seen from the state before it is
\* processed: 1 for a walker error, unreadable metadata or a failed size query
\* of an eligible entry, else 0.
Failures(e) ==
    IF \/ e.kind \in {"err", "meta_err"}
       \/ (Eligible(e) /\ ~walk_options.apparent_size /\ e.disk < 0)
    THEN 1 ELSE 0

\* C11: every failure is counted exactly once: the errors counted so far
\* (res.num_errors and those of the root under way) rise by 1 with a root
\* whose device is not resolved, by 1 with a failing walker item, and with
\* nothing else.  On return res.num_errors is the sum of the error counts of
\* the roots' records (the buffered ones and, without sorting, the lines
\* written), and it is the error count of the total line.
C11_ErrorsCountedOnce ==
    [][ /\ res'.num_errors + num_errors' = res.num_errors + num_errors
              + (IF DeviceErrStep THEN 1
                 ELSE IF EntryStep THEN Failures(entry') ELSE 0)
        /\ (pc = "emit" /\ pc' = "done")
             => /\ res' = res
                /\ res.num_errors
                     = SumErrors(aggregates)
                         + (IF sort_by_size_in_bytes THEN 0 ELSE SumLineErrors(out))
                /\ Len(out') > Len(out) => out'[Len(out')].errors = res.num_errors
      ]_vars

\* Root a is skipped, root b has two failing items: 3 errors on the total line.
C11_Witness ==
    /\ pc = "done"
    /\ sort_by_size_in_bytes
    /\ res.num_errors = 3
    /\ \E i \in 1..Len(aggregates) : aggregates[i] = Record("a", 0, 1)
    /\ \E i \in 1..Len(aggregates) : aggregates[i] = Record("b", 0, 2)
    /\ TotalLineWritten
    /\ out[Len(out)].errors = 3

\* C12: when no entry was traversed (no root, only roots whose device is not
\* resolved, only empty walks), the statistics that are returned have a
\* smallest file of 0 bytes.
C12_NothingTraversed ==
    (pc \in {"emit", "done"} /\ stats.entries_traversed = 0)
        => stats.smallest_file_in_bytes = 0

\* Root a is skipped and the walk of root b yields nothing.
C12_Witness ==
    /\ pc = "done"
    /\ stats.entries_traversed = 0
    /\ Len(paths) = 2
    /\ ~sort_by_size_in_bytes
    /\ aggregates = <<Record("a", 0, 1)>>
    /\ Shown(RootLines) = <<<<0, "b">>>>
    /\ stats.smallest_file_in_bytes = 0

\* C13: the statistics are never reset: smallest never rises and largest
\* never falls; every contribution of an Ok(entry), zero or not, lowers smallest
\* to it if it is smaller and raises largest to it if it is larger, and nothing
\* else changes them but the fix-up of an empty run.  So on return they are the
\* minimum and the maximum of the contributions of the whole run.
C13_MinMax ==
    [][ /\ stats'.smallest_file_in_bytes <= stats.smallest_file_in_bytes
        /\ stats'.largest_file_in_bytes >= stats.largest_file_in_bytes
        /\ IF EntryStep /\ entry'.kind # "err"
           THEN /\ stats'.smallest_file_in_bytes
                     = (IF file_size' < stats.smallest_file_in_bytes
                        THEN file_size' ELSE stats.smallest_file_in_bytes)
                /\ stats'.largest_file_in_bytes
                     = (IF file_size' > stats.largest_file_in_bytes
                        THEN file_size' ELSE stats.largest_file_in_bytes)
           ELSE /\ stats'.largest_file_in_bytes = stats.largest_file_in_bytes
                /\ \/ stats'.smallest_file_in_bytes = stats.smallest_file_in_bytes
                   \/ stats.entries_traversed = 0
      ]_vars

\* 100 bytes in root a, then a directory (0 bytes) in root b.
C13_Witness ==
    /\ pc = "done"
    /\ ~sort_by_size_in_bytes
    /\ Shown(RootLines) = <<<<100, "a">>, <<0, "b">>>>
    /\ stats.entries_traversed = 2
    /\ stats.smallest_file_in_bytes = 0
    /\ stats.largest_file_in_bytes = 100

\* C14: without sorting, while the loop is at root k the sink holds exactly
\* the lines of the roots before k that were traversed, in input order: the
\* line of a root is written once its walk is over and before the next root
\* is looked at.  With sorting nothing is written before the loop is over, and
\* the total line comes after the lines of all buffered records.
C14_OutputOrder ==
    /\ (~sort_by_size_in_bytes /\ pc \in {"loop", "walk"})
         => /\ Len(out) = (next_path - 1) - Len(aggregates)
            /\ \A k \in 1..Len(out) : PathIndex(out[k].path) < next_path
            /\ \A i, j \in 1..Len(out) :
                   i < j => PathIndex(out[i].path) < PathIndex(out[j].path)
    /\ (sort_by_size_in_bytes /\ pc \in {"loop", "walk"}) => out = <<>>
    /\ sort_by_size_in_bytes
         => /\ Len(RootLines) = emitted
            /\ \A k \in 1..Len(RootLines) :
                   RootLines[k].path = aggregates[k].path
            /\ TotalLineWritten => emitted = Len(aggregates)

\* The second root is being walked and the line of the first is written.
C14_Witness ==
    /\ ~sort_by_size_in_bytes
    /\ pc = "walk"
    /\ next_path = 2
    /\ stats.entries_traversed = 2
    /\ Shown(out) = <<<<100, "a">>>>

\* With sorting, both roots are traversed and nothing is written yet.
C14_SortedWitness ==
    /\ sort_by_size_in_bytes
    /\ pc = "emit"
    /\ emitted = 0
    /\ Len(aggregates) = 2
    /\ stats.entries_traversed = 2
    /\ out = <<>>


\* The walk of a root is over: lines 137-155, whether the line is written or not.
RootEndStep == pc = "walk" /\ pc' \in {"loop", "failed"}

\* C15: with a progress sink, the clear-line closure runs once at the end of
\* each root whose device was resolved, and at no other step; on a sink that
\* works, the log grows by the clear-line sequence at that step, by at most
\* one progress message at an entry, and by nothing else, so that outside a
\* walk a log that is not empty ends with the clear-line sequence, after the
\* progress messages of the root.  No step of the timer thread touches the
\* progress sink.
C15_ClearLine ==
    [][ /\ cleared' = cleared + (IF RootEndStep /\ err # "none" THEN 1 ELSE 0)
        /\ progress' =
             IF err = "ok" /\ RootEndStep
             THEN Append(progress, [kind |-> "clear", n |-> 0])
             ELSE IF err = "ok" /\ EntryStep /\ fired' = fired + 1
             THEN Append(progress, [kind |-> "enumerating",
                                    n |-> stats'.entries_traversed])
             ELSE progress
        /\ fired' # fired => EntryStep
        /\ (pc' # "walk" /\ progress' # <<>>)
             => progress'[Len(progress')].kind = "clear"
        /\ timer' # timer => UNCHANGED <<progress, fired, cleared>>
      ]_vars

\* A progress message during the walk of the first root, then its clear-line.
C15_Witness ==
    /\ err = "ok"
    /\ pc = "loop"
    /\ next_path = 2
    /\ cleared = 1
    /\ Len(progress) = 2
    /\ progress[1].kind = "enumerating"
    /\ progress[2].kind = "clear"


\* C16: the main thread can always take its next step, whatever the timer
\* thread is doing (it never waits for it), so aggregate returns; and once it
\* has returned, with Ok or with the error of the sink, a timer thread that
\* was spawned ends: from then on the ThrottleWriter is dropped and the
\* thread, if any, has exited.
C16_TimerExits ==
    /\ [](WriterAlive => ENABLED NextMain)
    /\ <>(~WriterAlive)
    /\ <>[](~WriterAlive /\ timer \in {"none", "exited"})

\* The thread has stored once and exits after a return with the sink's error.
C16_Witness ==
    /\ pc = "failed"
    /\ ticks = 1
    /\ timer = "exited"


\* One item of a walker is processed (the main thread running alone).
ItemStep == pc = "walk" /\ pc' = "walk"

\* C17: entries_traversed rises by exactly 1 with every item of a walker, a
\* walker error included, and with nothing else.  A walker error adds exactly
\* 1 to the errors of its root and leaves the bytes of the root, the smallest
\* and the largest file, the total and the identity tracker as they were; an
\* item after it is processed as any other: its size goes to the bytes of the
\* root.
C17_WalkerError ==
    [][ /\ stats'.entries_traversed
             = stats.entries_traversed + (IF ItemStep THEN 1 ELSE 0)
        /\ (ItemStep /\ entry'.kind = "err")
             => /\ num_errors' = num_errors + 1
                /\ num_bytes' = num_bytes
                /\ stats'.smallest_file_in_bytes = stats.smallest_file_in_bytes
                /\ stats'.largest_file_in_bytes = stats.largest_file_in_bytes
                /\ inodes' = inodes
                /\ total' = total
        /\ (ItemStep /\ entry.kind = "err" /\ entry'.kind # "err")
             => /\ num_bytes' = num_bytes + file_size'
                /\ file_size' = EntrySize(entry', walk_options, device_id,
                                          inodes).file_size
      ]_vars

\* A walker error, then a file of 100 bytes in the same root.
C17_Witness ==
    /\ pc = "walk"
    /\ stats.entries_traversed = 2
    /\ num_errors = 1
    /\ entry.kind = "meta"
    /\ file_size = 100
    /\ num_bytes = 100
    /\ stats.smallest_file_in_bytes = 100
    /\ stats.largest_file_in_bytes = 100

\* C18: the statistics of an Ok return have smallest_file_in_bytes at or
\* below largest_file_in_bytes: the sentinel is never returned.
C18_SmallestBelowLargest ==
    pc = "done" => stats.smallest_file_in_bytes <= stats.largest_file_in_bytes

\* C19: the identity tracker changes at the step of an entry only, and there
\* it gains the key of the entry exactly when the entry has readable metadata,
\* is not a directory and hard links are not counted, whatever device the
\* entry is on; for every other item (hard links counted, a directory,
\* unreadable or no metadata, a walker error) it is left as it was.
C19_TrackerConsulted ==
    [][ inodes' = IF /\ EntryStep
                     /\ entry'.kind = "meta"
                     /\ ~entry'.is_dir
                     /\ ~walk_options.count_hard_links
                  THEN inodes \cup {entry'.key}
                  ELSE inodes
      ]_vars

\* A file on another device has marked its key: a second file with that
\* key, on the device of the root, counts for 0 bytes.
C19_Witness ==
    /\ pc = "walk"
    /\ ~walk_options.count_hard_links
    /\ ~walk_options.cross_filesystems
    /\ walk_options.apparent_size
    /\ stats.entries_traversed = 2
    /\ stats.largest_file_in_bytes = 0
    /\ num_errors = 0
    /\ entry.kind = "meta"
    /\ ~entry.is_dir
    /\ entry.dev = device_id
    /\ inodes = {entry.key}
    /\ file_size = 0


\* The names that cwd_dirlist lists: the Ok items of read_dir(".") that are
\* not known to be symbolic links.
Listed == {e \in {cwd.items[i] : i \in 1..Len(cwd.items)} : e.listed /\ e.link # "yes"}

\* C20: paths_from gives an explicit list back as it is, whatever the flag.
\* For an empty list it gives the listing of the working directory, in
\* sorted order and each path once: all of it if cross_filesystems is on or
\* the device of the working directory is not resolved; else the listed
\* entries whose metadata cannot be read or whose device is that of the
\* working directory.
C20_PathsFrom ==
    [][ (pc = "main" /\ pc' = "loop")
          => IF input # <<>>
             THEN paths' = input
             ELSE /\ \A i, j \in 1..Len(paths') :
                        i < j => PathIndex(paths'[i]) < PathIndex(paths'[j])
                  /\ {paths'[i] : i \in 1..Len(paths')}
                       = {e.name : e \in
                            {e \in Listed :
                               \/ walk_options.cross_filesystems
                               \/ cwd.device = 0
                               \/ e.dev = 0
                               \/ e.dev = cwd.device}}
      ]_vars

\* Device filtering is on: of two listed paths the one on another device is
\* dropped, the one without readable metadata is kept.
C20_Witness ==
    /\ pc = "loop"
    /\ input = <<>>
    /\ ~walk_options.cross_filesystems
    /\ cwd.device = 1
    /\ \E e \in Listed : e.dev = 2
    /\ \E e \in Listed : e.dev = 0 /\ e.name = "a"
    /\ paths = <<"a">>

\* An explicit list comes back as it is, unsorted, with filtering on.
C20_ExplicitWitness ==
    /\ pc = "loop"
    /\ input = <<"b", "a">>
    /\ ~walk_options.cross_filesystems
    /\ cwd.device = 1
    /\ \E e \in Listed : e.dev = 2
    /\ paths = <<"b", "a">>

\* The device of the working directory is not resolved: nothing is dropped.
C20_UnresolvedWitness ==
    /\ pc = "loop"
    /\ input = <<>>
    /\ ~walk_options.cross_filesystems
    /\ cwd.device = 0
    /\ \E e \in Listed : e.dev = 2
    /\ \E e \in Listed : e.dev = 1
    /\ paths = <<"a", "b">>

====
